---- MODULE Spec2Model ----
(***************************************************************************)
(* tg-disk (src/main.go): the chunked transfer engine.                     *)
(*                                                                         *)
(* handleUpload stores a file in the Telegram chat either as one document  *)
(* (small-file path) or as fixed-size pieces plus a manifest "fileAll.txt" *)
(* (chunked path); handleDownload streams a document back, or fetches the  *)
(* pieces a manifest names and writes them in manifest order.              *)
(*                                                                         *)
(* Texts (file contents, file names, file ids, manifest text) are          *)
(* sequences of one-character strings.  The chat is `store`, an            *)
(* append-only sequence of documents; the file id Telegram returns for the *)
(* k-th document is FileIDOf(k).                                           *)
(*                                                                         *)
(* Sizes are scaled: chunkSize is 2 bytes here (20 MiB in the source), so  *)
(* that files of chunkSize-1, chunkSize, chunkSize+1 and 2*chunkSize bytes *)
(* are all enumerated.  Failures of the local temporary files (os.Create,  *)
(* os.WriteFile, io.Copy) and of the client connection are not modelled.   *)
(***************************************************************************)
EXTENDS Integers, Sequences, FiniteSets, TLC

\* ---------------------------------------------------------------- bounds
chunkSize == 2
MaxSize == 5
LongSize == 9
MaxOverhead == 1
MaxIds == 3
MaxBlank == 2
threadNumbers == 4

\* ------------------------------------------------------------ characters
LF == "\n"
CR == "\r"
SP == " "
Byte == {"0", "1"}

\* unicode.IsSpace restricted to the characters of the model
IsSpace(c) == c \in {SP, LF, CR, "\t"}

RECURSIVE TrimLeft(_)
TrimLeft(s) ==
    IF s # <<>> /\ IsSpace(Head(s)) THEN TrimLeft(Tail(s)) ELSE s

RECURSIVE TrimRight(_)
TrimRight(s) ==
    IF s # <<>> /\ IsSpace(s[Len(s)])
    THEN TrimRight(SubSeq(s, 1, Len(s) - 1))
    ELSE s

\* strings.TrimSpace
TrimSpace(s) == TrimRight(TrimLeft(s))

\* strings.Split(s, "\n"): always at least one element
RECURSIVE Split(_)
Split(s) ==
    IF \E i \in 1..Len(s) : s[i] = LF
    THEN LET i == CHOOSE j \in 1..Len(s) :
                      s[j] = LF /\ \A k \in 1..(j - 1) : s[k] # LF
         IN  <<SubSeq(s, 1, i - 1)>> \o Split(SubSeq(s, i + 1, Len(s)))
    ELSE <<s>>

RECURSIVE Concat(_)
Concat(ss) == IF ss = <<>> THEN <<>> ELSE Head(ss) \o Concat(Tail(ss))

\* ------------------------------------------------------------ the codec
\* handleUpload: builder.WriteString(origFilename + "\n"); one line per id
EncodeManifest(name, ids) ==
    name \o <<LF>> \o Concat([i \in 1..Len(ids) |-> ids[i] \o <<LF>>])

\* the blank-line filter that keeps each line untrimmed
RECURSIVE CleanLinesNoTrim(_)
CleanLinesNoTrim(lines) ==
    IF lines = <<>> THEN <<>>
    ELSE (IF TrimSpace(Head(lines)) # <<>> THEN <<Head(lines)>> ELSE <<>>)
         \o CleanLinesNoTrim(Tail(lines))

RECURSIVE CleanLines(_)
CleanLines(lines) ==
    IF lines = <<>> THEN <<>>
    ELSE LET line == TrimSpace(Head(lines))
         IN  (IF line # <<>> THEN <<line>> ELSE <<>>) \o CleanLines(Tail(lines))

\* handleDownload: the non-blank trimmed lines of the manifest text
DecodeManifest(text) == CleanLines(Split(TrimSpace(text)))

\* ---------------------------------------------------------- the splitter
\* io.ReadFull(file, buf) on the unread rest of the stream: n bytes read
ReadFullN(rest) == IF Len(rest) < chunkSize THEN Len(rest) ELSE chunkSize

\* the read loop that keeps the chunk before it tests for a read of zero
\* bytes
RECURSIVE SplitChunksTrailing(_)
SplitChunksTrailing(rest) ==
    LET n == ReadFullN(rest)
    IN  <<SubSeq(rest, 1, n)>>
        \o (IF n < chunkSize THEN <<>>
            ELSE SplitChunksTrailing(SubSeq(rest, n + 1, Len(rest))))

\* the read loop of handleUpload: one chunk per iteration, stopping on a
\* read of zero bytes, or after a short chunk
RECURSIVE SplitChunks(_)
SplitChunks(rest) ==
    LET n == ReadFullN(rest)
    IN  IF n = 0 THEN <<>>
        ELSE IF n < chunkSize THEN <<SubSeq(rest, 1, n)>>
        ELSE <<SubSeq(rest, 1, n)>> \o SplitChunks(SubSeq(rest, n + 1, Len(rest)))

\* ------------------------------------------------------------ the state
VARIABLES
    todo,          \* the requests the client has still to send, in order
    file,          \* the bytes of the uploaded file
    origFilename,  \* header.Filename
    filesize,      \* r.ContentLength: -1 when the request declares no length
    store,         \* the chat: the documents stored so far, in arrival order
    links,         \* the references handed out to the client
    upc,           \* handleUpload: position of the handler
    chunkPaths,    \* the chunks written to the temporary directory
    results,       \* results[i]: the slot of chunk i
    upTask,        \* upTask[i]: position of the goroutine of chunk i
    upI,           \* next chunk the submitting loop starts
    upSem,         \* number of tokens in sem
    upWg,          \* counter of wg
    metaText,      \* builder.String(): the text of fileAll.txt
    upResp,        \* the response of handleUpload
    dpc,           \* handleDownload: position of the handler
    dlFileID,      \* query parameter file_id
    dlFilename,    \* query parameter filename
    linesBytes,    \* the body read from the manifest document, once read
    cleanLines,    \* the non-blank lines of the fetched manifest
    partData,      \* partData[i]: the bytes of piece i
    downloadErr,   \* the shared error of the download goroutines
    dlTask,        \* dlTask[i]: position of the goroutine of piece i
    dlI,           \* next piece the submitting loop starts
    dlSem,         \* number of tokens in sem
    dlWg,          \* counter of wg
    fetchLog,      \* history: the fetches that returned, in order (index 0:
                   \* the document file_id names; index i: piece i)
    out,           \* the bytes written to the response body
    dlResp         \* the response of handleDownload

upVars == <<upc, chunkPaths, results, upTask, upI, upSem, upWg, metaText, upResp>>
dlVars == <<dpc, dlFileID, dlFilename, linesBytes, cleanLines, partData, downloadErr,
            dlTask, dlI, dlSem, dlWg, fetchLog, out, dlResp>>
reqVars == <<file, origFilename, filesize>>
vars == <<todo, reqVars, store, links, upVars, dlVars>>

\* ------------------------------------------------------------ the chat
FileIDChars == <<"1", "2", "3", "4", "5", "6", "7", "8", "9",
                 "A", "B", "C", "D", "E", "F", "G", "H", "I">>

\* the file id Telegram returns for the k-th document of the chat
FileIDOf(k) == <<"h", FileIDChars[k]>>

\* bot.Send(doc) with no error: the document is appended to the chat
Stored(data, kind, index) ==
    Append(store, [data |-> data, kind |-> kind, index |-> index])

\* bot.GetFile: the position in the chat of the document with this file id,
\* 0 when there is none
Lookup(fid) ==
    IF \E k \in 1..Len(store) : FileIDOf(k) = fid
    THEN CHOOSE k \in 1..Len(store) : FileIDOf(k) = fid
    ELSE 0

\* what bot.Send can return: an error, a message without Document, a
\* message with Document
SendOutcomes == {"err", "nodoc", "ok"}

\* ------------------------------------------------------------ responses
NoResp == [status |-> "none", code |-> 0, FileID |-> <<>>, filename |-> <<>>,
           errIndex |-> -1]
\* http.Error(w, msg, code)
UpError(code, index) ==
    [status |-> "error", code |-> code, FileID |-> <<>>, filename |-> <<>>,
     errIndex |-> index]
\* json.NewEncoder(w).Encode(UploadResult{...}); filename is the filename
\* parameter of download_url, empty when it has none
UpResult(fid, name) ==
    [status |-> "ok", code |-> 200, FileID |-> fid, filename |-> name,
     errIndex |-> -1]
\* err.Error() on a nil err: the handler panics, net/http drops the
\* connection without a response
UpPanic ==
    [status |-> "panic", code |-> 0, FileID |-> <<>>, filename |-> <<>>,
     errIndex |-> -1]

\* the reference a successful upload response carries
LinkOf(resp) == [FileID |-> resp.FileID, filename |-> resp.filename]

\* ----------------------------------------------------------- handleUpload
\* results := make([]uploadResult, len(chunkPaths))
ZeroResult == [Index |-> 0, FileID |-> <<>>, Err |-> ""]

UploadEnd(resp) ==
    /\ upc' = "done"
    /\ upResp' = resp
    /\ links' = IF resp.status = "ok" THEN links \cup {LinkOf(resp)} ELSE links
    /\ UNCHANGED todo

\* the small-file test of handleUpload
IsSmall(size) == size > 0 /\ size <= chunkSize

\* entry of handleUpload up to the first bot.Send: the small-file test and,
\* on the chunked path, the read loop
UploadBegin ==
    /\ todo # <<>> /\ Head(todo) = "upload"
    /\ todo' = Tail(todo)
    /\ upc = "idle"
    /\ IF IsSmall(filesize)
       THEN /\ upc' = "small"
            /\ UNCHANGED <<chunkPaths, results, upTask>>
       ELSE /\ upc' = "submit"
            /\ chunkPaths' = SplitChunks(file)
            /\ results' = [i \in 1..Len(chunkPaths') |-> ZeroResult]
            /\ upTask' = [i \in 1..Len(chunkPaths') |-> "none"]
    /\ UNCHANGED <<reqVars, store, links, upI, upSem, upWg, metaText,
                   upResp, dlVars>>

\* small-file path: bot.Send of the whole file returns
UploadSmallSend ==
    /\ upc = "small"
    /\ \E o \in SendOutcomes :
         IF o = "err"
         THEN /\ UploadEnd(UpError(500, -1))
              /\ UNCHANGED store
         ELSE /\ store' = Stored(file, "whole", 0)
              /\ UploadEnd(UpResult(IF o = "ok" THEN FileIDOf(Len(store'))
                                                ELSE <<>>,
                                    origFilename))
    /\ UNCHANGED <<reqVars, chunkPaths, results, upTask, upI, upSem, upWg,
                   metaText, dlVars>>

\* a loop that leaves the last element out
MoreToSubmitButLast(i, n) == i < n

\* for i, ... := range ...: the submitting loop has an element left
MoreToSubmit(i, n) == i <= n

\* defer func() { <-sem }(): the tokens left when a goroutine returns
Released(tokens) == tokens - 1

\* a join that does not wait for the goroutines
WaitDoneEarly(wg) == TRUE

\* wg.Wait() returns when the counter is zero
WaitDone(wg) == wg = 0

\* a gate that admits one goroutine too many
GateOpenOffByOne(tokens) == tokens <= threadNumbers

\* the admission gate: sem <- struct{}{} blocks while the channel is full
GateOpen(tokens) == tokens < threadNumbers

\* one iteration of the submitting loop: wg.Add(1); sem <- struct{}{}; go
UploadSubmit ==
    /\ upc = "submit"
    /\ MoreToSubmit(upI, Len(chunkPaths))
    /\ GateOpen(upSem)
    /\ upWg' = upWg + 1
    /\ upSem' = upSem + 1
    /\ upTask' = [upTask EXCEPT ![upI] = "send"]
    /\ upI' = upI + 1
    /\ UNCHANGED <<todo, reqVars, store, links, upc, chunkPaths, results,
                   metaText, upResp, dlVars>>

\* the slots filled in the order the sends return (append on completion)
SetResultByArrival(res, i, r) ==
    [res EXCEPT ![CHOOSE j \in 1..Len(res) :
                     res[j] = ZeroResult
                     /\ \A k \in 1..(j - 1) : res[k] # ZeroResult] = r]

\* the slot a goroutine writes: results[i] = uploadResult{...}
SetResult(res, i, r) == [res EXCEPT ![i] = r]

\* goroutine of chunk i: bot.Send returns and the result slot is written
\* (Index is the zero-based i of the source)
UploadTaskSend(i) ==
    /\ upTask[i] = "send"
    /\ \E o \in SendOutcomes :
         /\ store' = IF o = "err" THEN store
                     ELSE Stored(chunkPaths[i], "piece", i - 1)
         /\ results' = SetResult(results, i,
              [Index |-> i - 1,
               FileID |-> IF o = "ok" THEN FileIDOf(Len(store')) ELSE <<>>,
               Err |-> IF o = "ok" THEN "" ELSE o])
    /\ upTask' = [upTask EXCEPT ![i] = "exit"]
    /\ UNCHANGED <<todo, reqVars, links, upc, chunkPaths, upI, upSem, upWg,
                   metaText, upResp, dlVars>>

\* goroutine of chunk i: the deferred <-sem and wg.Done()
UploadTaskExit(i) ==
    /\ upTask[i] = "exit"
    /\ upSem' = Released(upSem)
    /\ upWg' = upWg - 1
    /\ upTask' = [upTask EXCEPT ![i] = "done"]
    /\ UNCHANGED <<todo, reqVars, store, links, upc, chunkPaths, results, upI,
                   metaText, upResp, dlVars>>

\* the check that looks for send errors only and takes a message without
\* Document for a stored chunk
FirstErrSendOnly(res) ==
    IF \E i \in 1..Len(res) : res[i].Err = "err"
    THEN CHOOSE i \in 1..Len(res) :
             res[i].Err = "err" /\ \A j \in 1..(i - 1) : res[j].Err # "err"
    ELSE 0

\* the check that reports the last slot with an error
FirstErrLast(res) ==
    IF \E i \in 1..Len(res) : res[i].Err # ""
    THEN CHOOSE i \in 1..Len(res) :
             res[i].Err # "" /\ \A j \in (i + 1)..Len(res) : res[j].Err = ""
    ELSE 0

\* the first slot with an error, 0 when there is none
FirstErr(res) ==
    IF \E i \in 1..Len(res) : res[i].Err # ""
    THEN CHOOSE i \in 1..Len(res) :
             res[i].Err # "" /\ \A j \in 1..(i - 1) : res[j].Err = ""
    ELSE 0

\* fileIDs = append(fileIDs, res.FileID) over results, in slot order
FileIDs(res) == [i \in 1..Len(res) |-> res[i].FileID]

\* wg.Wait() returns; the results are checked and fileAll.txt is built
UploadJoin ==
    /\ upc = "submit"
    /\ ~MoreToSubmit(upI, Len(chunkPaths))
    /\ WaitDone(upWg)
    /\ IF FirstErr(results) # 0
       THEN /\ UploadEnd(UpError(500, results[FirstErr(results)].Index))
            /\ UNCHANGED metaText
       ELSE /\ upc' = "meta"
            /\ metaText' = EncodeManifest(origFilename, FileIDs(results))
            /\ UNCHANGED <<todo, links, upResp>>
    /\ UNCHANGED <<reqVars, store, chunkPaths, results, upTask, upI, upSem,
                   upWg, dlVars>>

\* bot.Send of fileAll.txt returns
UploadMetaSend ==
    /\ upc = "meta"
    /\ \E o \in SendOutcomes :
         /\ store' = IF o = "err" THEN store
                     ELSE Stored(metaText, "manifest", 0)
         /\ UploadEnd(CASE o = "err" -> UpError(500, -1)
                        [] o = "nodoc" -> UpPanic
                        [] o = "ok" -> UpResult(FileIDOf(Len(store')), <<>>))
    /\ UNCHANGED <<reqVars, chunkPaths, results, upTask, upI, upSem, upWg,
                   metaText, dlVars>>

\* --------------------------------------------------------- handleDownload
NoDlResp ==
    [status |-> "none", code |-> 0, errFileID |-> <<>>, contentType |-> ""]
\* http.Error(w, msg, code); errFileID is the file id the message names
DlError(code, fid) ==
    [status |-> "error", code |-> code, errFileID |-> fid,
     contentType |-> "text/plain; charset=utf-8"]
\* the handler returns after writing the body
DlOK(contentType) ==
    [status |-> "ok", code |-> 200, errFileID |-> <<>>,
     contentType |-> contentType]

\* var downloadErr error
NoErr == [isErr |-> FALSE, fileID |-> <<>>]
\* fmt.Errorf("... %s ...", fileID, ...)
ErrOf(fid) == [isErr |-> TRUE, fileID |-> fid]

\* what fetching a document can do: bot.GetFile fails, http.Get fails, the
\* file server answers with a status other than 200, reading the body fails,
\* or the body is read
FetchOutcomes == {"getfile", "httpget", "status", "read", "ok"}

\* the body of an answer whose status is not 200
ErrBody == <<"!">>

\* a file id the chat does not know makes bot.GetFile fail
CanFetch(fid, o) == o = "getfile" \/ Lookup(fid) # 0

\* the history of fetches after one more returned
Fetched(i, fid, o) ==
    Append(fetchLog, [index |-> i, fileID |-> fid, ok |-> o = "ok"])

DownloadEnd(resp) ==
    /\ dpc' = "done"
    /\ dlResp' = resp
    /\ UNCHANGED todo

\* entry of handleDownload up to the first bot.GetFile
DownloadBegin ==
    /\ todo # <<>> /\ Head(todo) = "download"
    /\ todo' = Tail(todo)
    /\ dpc = "idle"
    /\ \E l \in links : \E name \in {<<>>, l.filename} :
         /\ dlFileID' = l.FileID
         /\ dlFilename' = name
         /\ IF l.FileID = <<>>
            THEN /\ dpc' = "done"
                 /\ dlResp' = DlError(400, <<>>)
            ELSE /\ dpc' = IF name # <<>> THEN "direct" ELSE "manifest"
                 /\ UNCHANGED dlResp
    /\ UNCHANGED <<reqVars, store, links, upVars, linesBytes, cleanLines,
                   partData, downloadErr, dlTask, dlI, dlSem, dlWg, fetchLog,
                   out>>

\* the extension taken from the first dot of the name
ExtFromFirstDot(path) ==
    IF \E i \in 1..Len(path) : path[i] = "."
    THEN SubSeq(path,
                CHOOSE i \in 1..Len(path) :
                    path[i] = "." /\ \A j \in 1..(i - 1) : path[j] # ".",
                Len(path))
    ELSE <<>>

RECURSIVE ExtFrom(_, _)
\* the loop of filepath.Ext: backwards from the end to the last dot,
\* stopping at a path separator
ExtFrom(path, i) ==
    IF i = 0 \/ path[i] = "/" THEN <<>>
    ELSE IF path[i] = "." THEN SubSeq(path, i, Len(path))
    ELSE ExtFrom(path, i - 1)

\* filepath.Ext(filename)
Ext(path) == ExtFrom(path, Len(path))

\* strings.ToLower restricted to the characters of the model
ToLower(ext) ==
    [i \in 1..Len(ext) |->
       CASE ext[i] = "G" -> "g"
         [] ext[i] = "I" -> "i"
         [] ext[i] = "F" -> "f"
         [] OTHER -> ext[i]]

\* the built-in table of package mime, three of its entries (the image
\* of the Dockerfile has no mime.types file)
BuiltinType(ext) ==
    CASE ext = <<".", "g", "i", "f">> -> "image/gif"
      [] ext = <<".", "p", "n", "g">> -> "image/png"
      [] ext = <<".", "p", "d", "f">> -> "application/pdf"
      [] OTHER -> ""

\* mime.TypeByExtension(ext): the extension as written, then lower-cased
TypeByExtension(ext) ==
    IF BuiltinType(ext) # "" THEN BuiltinType(ext)
    ELSE BuiltinType(ToLower(ext))

\* the switch on contentType of the direct path
ContentTypeOf(filename) ==
    LET contentType == TypeByExtension(Ext(filename))
    IN  CASE contentType = "" -> "application/octet-stream"
          [] contentType = "image/gif" -> "video/mp4"
          [] OTHER -> contentType

\* direct path: the document is fetched and copied to the response; the
\* status of the answer is not looked at
DownloadDirectFetch ==
    /\ dpc = "direct"
    /\ \E o \in FetchOutcomes \ {"read"} :
         /\ CanFetch(dlFileID, o)
         /\ fetchLog' = Fetched(0, dlFileID, o)
         /\ IF o \in {"getfile", "httpget"}
            THEN /\ DownloadEnd(DlError(500, <<>>))
                 /\ UNCHANGED out
            ELSE /\ out' = IF o = "ok" THEN store[Lookup(dlFileID)].data
                                       ELSE ErrBody
                 /\ DownloadEnd(DlOK(ContentTypeOf(dlFilename)))
    /\ UNCHANGED <<reqVars, store, links, upVars, dlFileID, dlFilename,
                   linesBytes, cleanLines, partData, downloadErr, dlTask, dlI,
                   dlSem, dlWg>>

\* linesBytes, err := io.ReadAll(resp.Body)
NoBody == [read |-> FALSE, data |-> <<>>]
BodyRead(data) == [read |-> TRUE, data |-> data]

\* the length test off by one: a file name alone passes
FormatErrorOffByOne(lines) == Len(lines) < 1

\* len(cleanLines) < 2: no file name and one piece id
FormatError(lines) == Len(lines) < 2

\* blobFileIDs := cleanLines[1:]
BlobFileIDs(lines) == Tail(lines)

\* manifest path: fileAll.txt is fetched and parsed
DownloadManifestFetch ==
    /\ dpc = "manifest"
    /\ \E o \in FetchOutcomes :
         /\ CanFetch(dlFileID, o)
         /\ fetchLog' = Fetched(0, dlFileID, o)
         /\ IF o # "ok"
            THEN /\ DownloadEnd(DlError(500, <<>>))
                 /\ UNCHANGED <<linesBytes, cleanLines, partData, dlTask>>
            ELSE /\ linesBytes' = BodyRead(store[Lookup(dlFileID)].data)
                 /\ cleanLines' = DecodeManifest(linesBytes'.data)
                 /\ IF FormatError(cleanLines')
                    THEN /\ DownloadEnd(DlError(400, <<>>))
                         /\ UNCHANGED <<partData, dlTask>>
                    ELSE /\ dpc' = "submit"
                         /\ partData' =
                              [i \in 1..Len(BlobFileIDs(cleanLines')) |-> <<>>]
                         /\ dlTask' =
                              [i \in 1..Len(BlobFileIDs(cleanLines')) |-> "none"]
                         /\ UNCHANGED <<todo, dlResp>>
    /\ UNCHANGED <<reqVars, store, links, upVars, dlFileID, dlFilename,
                   downloadErr, dlI, dlSem, dlWg, out>>

\* one iteration of the submitting loop: wg.Add(1); sem <- struct{}{}; go
DownloadSubmit ==
    /\ dpc = "submit"
    /\ MoreToSubmit(dlI, Len(BlobFileIDs(cleanLines)))
    /\ GateOpen(dlSem)
    /\ dlWg' = dlWg + 1
    /\ dlSem' = dlSem + 1
    /\ dlTask' = [dlTask EXCEPT ![dlI] = "fetch"]
    /\ dlI' = dlI + 1
    /\ UNCHANGED <<todo, reqVars, store, links, upVars, dpc, dlFileID,
                   dlFilename, linesBytes, cleanLines, partData, downloadErr,
                   fetchLog, out, dlResp>>

\* a goroutine whose error never reaches the shared variable
ErrWritesLost(old, e) == {old}

\* the values the unsynchronised write downloadErr = e can leave in the
\* shared variable: goroutines that fail write it concurrently, and the
\* read after wg.Wait() sees one of the values written
ErrWrites(old, e) == IF old.isErr THEN {old, e} ELSE {e}

\* the slot a goroutine writes: partData[index] = data
SetPart(parts, i, data) == [parts EXCEPT ![i] = data]

\* goroutine of piece i: the fetch returns; the piece is kept, or the
\* shared error is set
DownloadTaskFetch(i) ==
    /\ dlTask[i] = "fetch"
    /\ LET fid == BlobFileIDs(cleanLines)[i] IN
       \E o \in FetchOutcomes :
         /\ CanFetch(fid, o)
         /\ fetchLog' = Fetched(i, fid, o)
         /\ IF o = "ok"
            THEN /\ partData' = SetPart(partData, i, store[Lookup(fid)].data)
                 /\ UNCHANGED downloadErr
            ELSE /\ downloadErr' \in ErrWrites(downloadErr, ErrOf(fid))
                 /\ UNCHANGED partData
    /\ dlTask' = [dlTask EXCEPT ![i] = "exit"]
    /\ UNCHANGED <<todo, reqVars, store, links, upVars, dpc, dlFileID,
                   dlFilename, linesBytes, cleanLines, dlI, dlSem, dlWg, out,
                   dlResp>>

\* goroutine of piece i: the deferred <-sem and wg.Done()
DownloadTaskExit(i) ==
    /\ dlTask[i] = "exit"
    /\ dlSem' = Released(dlSem)
    /\ dlWg' = dlWg - 1
    /\ dlTask' = [dlTask EXCEPT ![i] = "done"]
    /\ UNCHANGED <<todo, reqVars, store, links, upVars, dpc, dlFileID,
                   dlFilename, linesBytes, cleanLines, partData, downloadErr,
                   dlI, fetchLog, out, dlResp>>

\* the pieces written in the order their fetches returned
WritePartsByArrival(parts) ==
    LET arrived == SelectSeq(fetchLog, LAMBDA e : e.index > 0)
    IN  Concat([k \in 1..Len(arrived) |-> parts[arrived[k].index]])

\* the loop over partData: w.Write(data) for each piece, in slot order
WriteParts(parts) == Concat(parts)

\* wg.Wait() returns; the error is reported, or the pieces are written
DownloadJoin ==
    /\ dpc = "submit"
    /\ ~MoreToSubmit(dlI, Len(BlobFileIDs(cleanLines)))
    /\ WaitDone(dlWg)
    /\ IF downloadErr.isErr
       THEN /\ DownloadEnd(DlError(500, downloadErr.fileID))
            /\ UNCHANGED out
       ELSE /\ out' = WriteParts(partData)
            /\ DownloadEnd(DlOK("application/octet-stream"))
    /\ UNCHANGED <<reqVars, store, links, upVars, dlFileID, dlFilename,
                   linesBytes, cleanLines, partData, downloadErr, dlTask, dlI,
                   dlSem, dlWg, fetchLog>>

\* ------------------------------------------------------ the specifications
\* all byte sequences of at most n bytes
Files(n) == UNION {[1..k -> Byte] : k \in 0..n}

\* header.Filename is never empty (such a part is no file part); it can
\* be blank
Filenames == {<<"a">>, <<SP>>}

\* r.ContentLength is -1 for a request that declares no length; otherwise
\* it counts the whole multipart body, the file and the form around it
ContentLengths(f) == {-1} \cup {Len(f) + o : o \in 1..MaxOverhead}

IdleJobs ==
    /\ upc = "idle"
    /\ chunkPaths = <<>>
    /\ upTask = <<>>
    /\ upI = 1
    /\ upSem = 0
    /\ upWg = 0
    /\ metaText = <<>>
    /\ upResp = NoResp
    /\ dpc = "idle"
    /\ dlFileID = <<>>
    /\ dlFilename = <<>>
    /\ linesBytes = NoBody
    /\ cleanLines = <<>>
    /\ partData = <<>>
    /\ downloadErr = NoErr
    /\ dlTask = <<>>
    /\ dlI = 1
    /\ dlSem = 0
    /\ dlWg = 0
    /\ fetchLog = <<>>
    /\ out = <<>>
    /\ dlResp = NoDlResp

\* one upload into an empty chat, then one download of what it returned
Init ==
    /\ todo = <<"upload", "download">>
    /\ file \in Files(MaxSize)
    /\ origFilename \in Filenames
    /\ filesize \in ContentLengths(file)
    /\ store = <<>>
    /\ links = {}
    /\ results = <<>>
    /\ IdleJobs

\* a file of more than threadNumbers chunks
LongFile == [i \in 1..LongSize |-> IF i % 3 = 0 THEN "1" ELSE "0"]

\* the chat after a chunked upload of f whose sends returned in chunk order
ChatOf(name, f) ==
    LET chunks == SplitChunks(f)
        n == Len(chunks)
    IN  [k \in 1..(n + 1) |->
           IF k <= n
           THEN [data |-> chunks[k], kind |-> "piece", index |-> k - 1]
           ELSE [data |-> EncodeManifest(name, [i \in 1..n |-> FileIDOf(i)]),
                 kind |-> "manifest", index |-> 0]]

\* the long file: one upload into an empty chat, or one download from the
\* chat an earlier upload of it left; and the files of at most one byte
InitLong ==
    /\ origFilename = <<"a">>
    /\ \/ /\ todo = <<"upload", "download">>
          /\ file \in Files(1)
          /\ store = <<>>
          /\ links = {}
       \/ /\ todo = <<"upload">>
          /\ file = LongFile
          /\ store = <<>>
          /\ links = {}
       \/ /\ todo = <<"download">>
          /\ file = LongFile
          /\ store = ChatOf(origFilename, file)
          /\ links = {[FileID |-> FileIDOf(Len(store)), filename |-> <<>>]}
    /\ filesize \in ContentLengths(file)
    /\ results = <<>>
    /\ IdleJobs

Next ==
    \/ UploadBegin
    \/ UploadSmallSend
    \/ UploadSubmit
    \/ \E i \in DOMAIN upTask : UploadTaskSend(i)
    \/ \E i \in DOMAIN upTask : UploadTaskExit(i)
    \/ UploadJoin
    \/ UploadMetaSend
    \/ DownloadBegin
    \/ DownloadDirectFetch
    \/ DownloadManifestFetch
    \/ DownloadSubmit
    \/ \E i \in DOMAIN dlTask : DownloadTaskFetch(i)
    \/ \E i \in DOMAIN dlTask : DownloadTaskExit(i)
    \/ DownloadJoin

Spec == Init /\ [][Next]_vars

SpecLong == InitLong /\ [][Next]_vars

\* file names with and without an extension: known to package mime, in
\* capitals, unknown, empty, doubled, and in a directory of the path
TypeNames ==
    {<<"a">>,
     <<"a", ".", "g", "i", "f">>,
     <<"a", ".", "G", "I", "F">>,
     <<"a", ".", "p", "n", "g">>,
     <<"a", ".", "p", "d", "f">>,
     <<"a", ".", "z">>,
     <<"a", ".">>,
     <<".", "g", "i", "f">>,
     <<"a", ".", "p", "n", "g", ".", "g", "i", "f">>,
     <<"a", ".", "g", "i", "f", ".", "z">>,
     <<"a", ".", "g", "i", "f", "/", "b">>}

\* one upload of a file of at most one byte under each of these names,
\* then one download of what it returned
InitType ==
    /\ todo = <<"upload", "download">>
    /\ file \in Files(1)
    /\ origFilename \in TypeNames
    /\ filesize \in ContentLengths(file)
    /\ store = <<>>
    /\ links = {}
    /\ results = <<>>
    /\ IdleJobs

SpecType == InitType /\ [][Next]_vars

\* a file of n full chunks
ChunksFile(n) ==
    [i \in 1..(n * chunkSize) |-> IF i % 3 = 0 THEN "1" ELSE "0"]

\* net/http runs every request in a goroutine of its own: an upload, of
\* three chunks or of at most one byte, and while it runs a download from
\* the chat an earlier upload of two chunks left
InitTwoJobs ==
    /\ todo = <<"upload", "download">>
    /\ origFilename = <<"a">>
    /\ file \in Files(1) \cup {ChunksFile(3)}
    /\ filesize \in ContentLengths(file)
    /\ Len(file) > 1 => filesize = -1
    /\ store = ChatOf(origFilename, ChunksFile(2))
    /\ links = {[FileID |-> FileIDOf(Len(store)), filename |-> <<>>]}
    /\ results = <<>>
    /\ IdleJobs

SpecTwoJobs == InitTwoJobs /\ [][Next]_vars

\* ------------------------------------------------ the bot's reply to get
\* the name handleUpload gives the manifest file
FileAllTxt == <<"f", "i", "l", "e", "A", "l", "l", ".", "t", "x", "t">>

Digits == <<"0", "1", "2", "3", "4", "5", "6", "7", "8", "9">>

RECURSIVE Decimal(_)
\* %d of fmt.Sprintf
Decimal(n) ==
    IF n < 10 THEN <<Digits[n + 1]>>
    ELSE Decimal(n \div 10) \o <<Digits[(n % 10) + 1]>>

\* the file name of a document of the chat, the base name of the path
\* that was sent: tmpDir/header.Filename, tmpDir/blob_%d, tmpDir/fileAll.txt
FileNameOf(doc) ==
    CASE doc.kind = "whole" -> origFilename
      [] doc.kind = "piece" -> <<"b", "l", "o", "b", "_">> \o Decimal(doc.index)
      [] doc.kind = "manifest" -> FileAllTxt

\* the link of the reply: without filename for a document named
\* fileAll.txt, with the document's name otherwise
GetLink(fileID, fileName) ==
    IF fileName = FileAllTxt
    THEN [FileID |-> fileID, filename |-> <<>>]
    ELSE [FileID |-> fileID, filename |-> fileName]

\* the owner answers get to a document of the chat and the bot replies
\* with its download link
BotGet ==
    /\ todo # <<>> /\ Head(todo) = "get"
    /\ todo' = Tail(todo)
    /\ \E k \in 1..Len(store) :
         links' = links \cup {GetLink(FileIDOf(k), FileNameOf(store[k]))}
    /\ UNCHANGED <<reqVars, store, upVars, dlVars>>

\* one upload of a file named a or fileAll.txt, a get for a document of
\* the chat, then one download through a link that was handed out
InitGet ==
    /\ todo = <<"upload", "get", "download">>
    /\ file \in Files(chunkSize + 1)
    /\ origFilename \in {<<"a">>, FileAllTxt}
    /\ filesize \in ContentLengths(file)
    /\ store = <<>>
    /\ links = {}
    /\ results = <<>>
    /\ IdleJobs

NextGet == Next \/ BotGet

SpecGet == InitGet /\ [][NextGet]_vars

\* the Go scheduler runs every goroutine that can run, and every chat
\* operation returns: no step that stays possible is put off for ever
Fairness == WF_vars(Next)

\* the initial states of SpecLong, the long file sent with no declared
\* length
InitFair ==
    /\ InitLong
    /\ Len(file) > 1 => filesize = -1

SpecLongFair == InitFair /\ [][Next]_vars /\ Fairness

\* ------------------------------------------------- the codec on its own
\* file names of a multipart file part: not empty, blanks allowed
CodecNames == {<<"a">>, <<"a", "b">>, <<"a", SP, "b">>, <<SP, "a">>,
               <<"a", SP>>, <<SP>>}

\* the lists of 1..MaxIds distinct file ids
CodecIds ==
    LET ids == {FileIDOf(k) : k \in 1..MaxIds}
    IN  UNION {{l \in [1..n -> ids] :
                  \A i, j \in 1..n : i # j => l[i] # l[j]} : n \in 1..MaxIds}

\* the text with every line feed preceded by a carriage return
RECURSIVE ToCRLF(_)
ToCRLF(text) ==
    IF text = <<>> THEN <<>>
    ELSE (IF Head(text) = LF THEN <<CR, LF>> ELSE <<Head(text)>>)
         \o ToCRLF(Tail(text))

\* k blank lines
RECURSIVE BlankLines(_, _)
BlankLines(k, crlf) ==
    IF k = 0 THEN <<>>
    ELSE (IF crlf THEN <<CR, LF>> ELSE <<LF>>) \o BlankLines(k - 1, crlf)

\* line-ending noise on a manifest text
Noise(text, crlf, k) ==
    (IF crlf THEN ToCRLF(text) ELSE text) \o BlankLines(k, crlf)

\* the result slots of an upload whose sends all returned a file id
InitCodec ==
    /\ todo = <<"encode", "noise", "decode">>
    /\ origFilename \in CodecNames
    /\ results \in {[i \in 1..Len(ids) |->
                       [Index |-> i - 1, FileID |-> ids[i], Err |-> ""]] :
                    ids \in CodecIds}
    /\ file = <<>>
    /\ filesize = -1
    /\ store = <<>>
    /\ links = {}
    /\ IdleJobs

\* handleUpload builds the text of fileAll.txt
CodecEncode ==
    /\ todo # <<>> /\ Head(todo) = "encode"
    /\ metaText' = EncodeManifest(origFilename, FileIDs(results))
    /\ todo' = Tail(todo)
    /\ UNCHANGED <<reqVars, store, links, upc, chunkPaths, results, upTask,
                   upI, upSem, upWg, upResp, dlVars>>

\* the text picks up line-ending noise on its way
CodecNoise ==
    /\ todo # <<>> /\ Head(todo) = "noise"
    /\ \E crlf \in BOOLEAN, k \in 0..MaxBlank :
         metaText' = Noise(metaText, crlf, k)
    /\ todo' = Tail(todo)
    /\ UNCHANGED <<reqVars, store, links, upc, chunkPaths, results, upTask,
                   upI, upSem, upWg, upResp, dlVars>>

\* handleDownload parses the text
CodecDecode ==
    /\ todo # <<>> /\ Head(todo) = "decode"
    /\ cleanLines' = DecodeManifest(metaText)
    /\ todo' = Tail(todo)
    /\ UNCHANGED <<reqVars, store, links, upVars, dpc, dlFileID, dlFilename,
                   linesBytes, partData, downloadErr, dlTask, dlI, dlSem, dlWg,
                   fetchLog, out, dlResp>>

NextCodec == CodecEncode \/ CodecNoise \/ CodecDecode

SpecCodec == InitCodec /\ [][NextCodec]_vars

\* ------------------------------------------------------------ properties
\* the upload took the chunked path and the read loop has run
Chunked == upc # "idle" /\ ~IsSmall(filesize)

\* the file id the chat returned for chunk i (zero-based) of the upload
ReturnedFor(i) ==
    FileIDOf(CHOOSE k \in 1..Len(store) :
                 store[k].kind = "piece" /\ store[k].index = i)

\* the download was asked for the reference the upload returned
SameReference ==
    /\ upResp.status = "ok"
    /\ dlFileID = upResp.FileID
    /\ dlFilename = upResp.filename

\* the piece fetches that have returned, in order of return
PieceFetches == SelectSeq(fetchLog, LAMBDA e : e.index > 0)

\* C1: a file of at least one byte whose upload succeeded, downloaded
\* through the reference the upload returned with every fetch succeeding,
\* comes back byte for byte
C1_RoundTrip ==
    (/\ dpc = "done"
     /\ Len(file) >= 1
     /\ SameReference
     /\ \A k \in 1..Len(fetchLog) : fetchLog[k].ok)
    => (dlResp.status = "ok" /\ out = file)

\* the round trip of C1 for the uploads that returned a file id, of files
\* whose name is not blank
RoundTripWithFileID ==
    (/\ dpc = "done"
     /\ Len(file) >= 1
     /\ SameReference
     /\ upResp.FileID # <<>>
     /\ TrimSpace(origFilename) # <<>>
     /\ \A k \in 1..Len(fetchLog) : fetchLog[k].ok)
    => (dlResp.status = "ok" /\ out = file)

\* C2: once the manifest is built it lists the file id returned for chunk
\* 0, 1, ..., n-1 in that order, whatever the order the sends returned in;
\* a slot is written by the goroutine of its own chunk only
C2_ManifestOrder ==
    /\ metaText # <<>> =>
         /\ \A i \in 1..Len(chunkPaths) : \E k \in 1..Len(store) :
                store[k].kind = "piece" /\ store[k].index = i - 1
         /\ metaText = EncodeManifest(origFilename,
                [i \in 1..Len(chunkPaths) |-> ReturnedFor(i - 1)])
    /\ \A i \in DOMAIN results :
         IF upTask[i] \in {"none", "send"}
         THEN results[i] = ZeroResult
         ELSE results[i].Index = i - 1

\* the manifest of two or more chunks whose sends returned in reverse order
C2_Witness ==
    /\ upc = "meta"
    /\ Len(chunkPaths) >= 2
    /\ Len(store) = Len(chunkPaths)
    /\ \A k \in 1..Len(store) : store[k].index = Len(chunkPaths) - k

\* C3: a successful manifest download has written the pieces in manifest
\* order, whatever the order the fetches returned in
C3_OutputInManifestOrder ==
    (dpc = "done" /\ dlResp.status = "ok" /\ dlFilename = <<>>)
    => out = Concat([i \in 1..Len(BlobFileIDs(cleanLines)) |->
                       store[Lookup(BlobFileIDs(cleanLines)[i])].data])

\* a successful download whose fetches returned in fully reversed order
C3_Witness ==
    /\ dpc = "done" /\ dlResp.status = "ok" /\ dlFilename = <<>>
    /\ Len(partData) >= 2
    /\ partData[1] # partData[Len(partData)]
    /\ Len(PieceFetches) = Len(partData)
    /\ \A k \in 1..Len(partData) :
         PieceFetches[k].index = Len(partData) + 1 - k

\* the chat operations of the upload job that have not returned
InFlightUp ==
    Cardinality({i \in DOMAIN upTask : upTask[i] = "send"})
    + (IF upc \in {"small", "meta"} THEN 1 ELSE 0)

\* the chat operations of the download job that have not returned
InFlightDl ==
    Cardinality({i \in DOMAIN dlTask : dlTask[i] = "fetch"})
    + (IF dpc \in {"direct", "manifest"} THEN 1 ELSE 0)

\* the goroutines of a job that hold a token of its gate
Running(task) ==
    Cardinality({i \in DOMAIN task : task[i] \in {"send", "fetch", "exit"}})

\* C4: within a job at most threadNumbers chunk sends, or piece fetches,
\* are in flight, and at most threadNumbers goroutines are past the gate
C4_BoundedInFlight ==
    /\ InFlightUp <= threadNumbers
    /\ InFlightDl <= threadNumbers
    /\ Running(upTask) <= threadNumbers
    /\ Running(dlTask) <= threadNumbers

\* threadNumbers sends in flight and a chunk still waiting at the gate
C4_Witness ==
    /\ InFlightUp = threadNumbers
    /\ upc = "submit"
    /\ upI <= Len(chunkPaths)

\* the send of some chunk failed
PieceFailed == \E i \in DOMAIN results : results[i].Err # ""

\* C5: when the send of a chunk failed the upload answers with an error,
\* no manifest is ever stored and no reference is returned
C5_NoManifestAfterFailure ==
    PieceFailed =>
      /\ \A k \in 1..Len(store) : store[k].kind # "manifest"
      /\ metaText = <<>>
      /\ upc # "meta"
      /\ links = {}
      /\ upResp.status # "ok"
      /\ upc = "done" => (upResp.status = "error" /\ upResp.code = 500)

\* a failed upload that left a stored chunk behind
C5_Witness ==
    /\ upc = "done"
    /\ PieceFailed
    /\ upResp.status = "error"
    /\ \E k \in 1..Len(store) : store[k].kind = "piece"

\* the piece fetches that failed
FailedFetches == {k \in 1..Len(fetchLog) :
                    fetchLog[k].index > 0 /\ ~fetchLog[k].ok}

\* C6: when the fetch of a piece failed the download answers with an error
\* that names the file id of a fetch that failed
C6_FetchFailureReported ==
    (dpc = "done" /\ FailedFetches # {})
    => /\ dlResp.status = "error"
       /\ \E k \in FailedFetches : fetchLog[k].fileID = dlResp.errFileID

\* a failed download with two failed fetches and the last fetch succeeding
C6_Witness ==
    /\ dpc = "done"
    /\ Cardinality(FailedFetches) >= 2
    /\ fetchLog[Len(fetchLog)].ok
    /\ dlResp.status = "error"

\* C7: on the chunked path the read loop produces ceil(S/chunkSize) chunks
\* whose concatenation is the file, all of chunkSize bytes except the last,
\* which has S mod chunkSize bytes, or chunkSize when that is 0; none is empty
C7_SplitterPieces ==
    Chunked =>
      LET S == Len(file)
          n == Len(chunkPaths)
      IN  /\ n = (S + chunkSize - 1) \div chunkSize
          /\ Concat(chunkPaths) = file
          /\ \A i \in 1..n :
               /\ Len(chunkPaths[i]) > 0
               /\ Len(chunkPaths[i]) =
                    IF i < n \/ S % chunkSize = 0 THEN chunkSize
                    ELSE S % chunkSize

\* a file of exactly chunkSize bytes on the chunked path: one chunk
C7_Witness ==
    /\ Chunked
    /\ Len(file) = chunkSize
    /\ Len(chunkPaths) = 1

\* the manifest text as handleUpload builds it from the slots
CleanText == EncodeManifest(origFilename, FileIDs(results))

\* C8: decoding the text built from a file name and a list of file ids
\* gives that file name and that list
C8_ManifestRoundTrip ==
    (todo = <<>> /\ metaText = CleanText)
    => cleanLines = <<origFilename>> \o FileIDs(results)

\* C9: blank lines appended to the manifest text, and CR LF line ends,
\* do not change what it decodes to
C9_NoiseTolerant ==
    todo = <<>> => cleanLines = DecodeManifest(CleanText)

\* a decoded text with CR LF line ends and blank lines appended
C9_Witness ==
    /\ todo = <<>>
    /\ metaText = Noise(CleanText, TRUE, MaxBlank)
    /\ metaText # CleanText
    /\ Len(cleanLines) >= 3

\* the lines of a text that hold a character that is no blank
NonBlankLines(text) ==
    LET lines == Split(text)
    IN  {i \in DOMAIN lines : \E j \in DOMAIN lines[i] : ~IsSpace(lines[i][j])}

\* C10: when the document read on the manifest path has fewer than two
\* non-blank lines the download answers with the format error, no piece is
\* fetched and nothing is written
C10_FormatError ==
    (linesBytes.read /\ Cardinality(NonBlankLines(linesBytes.data)) < 2)
    => /\ dpc = "done"
       /\ dlResp = DlError(400, <<>>)
       /\ PieceFetches = <<>>
       /\ \A i \in DOMAIN dlTask : dlTask[i] = "none"
       /\ out = <<>>

\* a document of one non-blank line read on the manifest path
C10_Witness ==
    /\ linesBytes.read
    /\ Cardinality(NonBlankLines(linesBytes.data)) = 1
    /\ dpc = "done"

\* the size of the file is declared and is 1..chunkSize bytes
DeclaredSmall ==
    /\ filesize # -1
    /\ Len(file) >= 1
    /\ Len(file) <= chunkSize

\* C11: a file of 1..chunkSize bytes whose size is declared takes the
\* small-file path: one document is stored, no manifest, and the response
\* carries the file id of that document and the file name
C11_SmallFileDirect ==
    (DeclaredSmall /\ upc # "idle") =>
      /\ upc \in {"small", "done"}
      /\ chunkPaths = <<>>
      /\ \A k \in 1..Len(store) : store[k].kind = "whole"
      /\ Len(store) <= 1
      /\ upResp.status = "ok" =>
           /\ Len(store) = 1
           /\ upResp.FileID = FileIDOf(1)
           /\ upResp.filename = origFilename

\* the upload reached the chunked path and ended without a JSON result
ChunkedUploadFailed ==
    /\ upc = "done"
    /\ Chunked
    /\ upResp.status # "ok"

\* C12: a chunked upload that fails (a chunk send fails, the manifest send
\* fails or returns no Document) answers with a server error
C12_FailureIsServerError ==
    ChunkedUploadFailed => (upResp.status = "error" /\ upResp.code = 500)

\* C14: every manifest the upload stores decodes without the format error:
\* a file name and at least one file id
C14_StoredManifestValid ==
    \A k \in 1..Len(store) :
      store[k].kind = "manifest" => ~FormatError(DecodeManifest(store[k].data))

\* C15: a file of zero bytes uploaded with no declared size, downloaded
\* through the reference the upload returned, comes back as zero bytes
C15_EmptyRoundTrip ==
    (/\ dpc = "done"
     /\ Len(file) = 0
     /\ filesize <= 0
     /\ SameReference
     /\ \A k \in 1..Len(fetchLog) : fetchLog[k].ok)
    => (dlResp.status = "ok" /\ out = <<>>)

\* the chunks (zero-based) whose send failed
FailedPieces == {i - 1 : i \in {j \in DOMAIN results : results[j].Err # ""}}

\* C16: the error of a chunked upload names the lowest zero-based index
\* among the chunks whose send failed, whatever order the sends returned in
C16_LowestFailedIndex ==
    (upc = "done" /\ FailedPieces # {}) =>
      /\ upResp.status = "error"
      /\ upResp.errIndex \in FailedPieces
      /\ \A i \in FailedPieces : upResp.errIndex <= i

\* two failed chunks, the higher one stored (without Document) first
C16_Witness ==
    /\ upc = "done"
    /\ Cardinality(FailedPieces) >= 2
    /\ upResp.status = "error"
    /\ \E k1, k2 \in 1..Len(store) :
         /\ k1 < k2
         /\ store[k1].index > store[k2].index
         /\ store[k1].index \in FailedPieces
         /\ store[k2].index \in FailedPieces
         /\ upResp.errIndex = store[k2].index

\* C20: the error a failed download reports is that of the first piece
\* fetch that failed: later failures do not overwrite it
C20_FirstErrorKept ==
    (dpc = "done" /\ FailedFetches # {}) =>
      \E k \in FailedFetches :
        /\ \A j \in FailedFetches : k <= j
        /\ dlResp.errFileID = fetchLog[k].fileID

\* C17: the manifest is built and sent only after every chunk goroutine
\* has returned; a manifest download writes nothing before every piece
\* goroutine has returned, so a failed piece fetch leaves the body empty
C17_JoinBarrier ==
    /\ (upc = "meta" \/ metaText # <<>>) =>
         /\ DOMAIN upTask = DOMAIN chunkPaths
         /\ \A i \in DOMAIN upTask : upTask[i] = "done"
    /\ (dlFilename = <<>> /\ (out # <<>> \/ dlResp.status = "ok")) =>
         /\ DOMAIN dlTask = DOMAIN BlobFileIDs(cleanLines)
         /\ \A i \in DOMAIN dlTask : dlTask[i] = "done"
    /\ FailedFetches # {} => out = <<>>

\* a failed download that had fetched a piece and wrote nothing
C17_Witness ==
    /\ dpc = "done"
    /\ FailedFetches # {}
    /\ \E i \in DOMAIN partData : partData[i] # <<>>
    /\ out = <<>>
    /\ metaText # <<>>

\* a handler is between its entry and its response
JobRunning == upc \notin {"idle", "done"} \/ dpc \notin {"idle", "done"}

\* every job that starts comes to its end: the gate and the join of the
\* two handlers never block for good
JobsTerminate == JobRunning ~> ~JobRunning

\* C18: under fair scheduling, with every chat operation returning, every
\* upload job and every download job that starts ends with a response
\* written to the client
C18_JobsRespond ==
    /\ (upc \notin {"idle", "done"})
         ~> (upc = "done" /\ upResp.status \in {"ok", "error"})
    /\ (dpc \notin {"idle", "done"})
         ~> (dpc = "done" /\ dlResp.status \in {"ok", "error"})

\* a download of more pieces than threadNumbers that ended
GateBlockedJobEnded ==
    /\ dpc = "done"
    /\ Len(partData) > threadNumbers
    /\ FailedFetches # {}

\* the documents the chat holds for piece i (zero-based)
PieceDocs(i) ==
    {k \in 1..Len(store) : store[k].kind = "piece" /\ store[k].index = i}

\* the fetches of piece i (one-based) that have returned
FetchesOf(i) == {k \in 1..Len(fetchLog) : fetchLog[k].index = i}

\* the upload job is past wg.Wait()
UploadJoined == Chunked /\ upc \in {"meta", "done"}

\* the download job is past wg.Wait()
DownloadJoined == dpc = "done" /\ dlTask # <<>>

\* C19: once a job is past its join every piece transfer was attempted
\* exactly once, whatever happened to the other pieces: every upload slot
\* holds the result of its one send, the chat holds one document for a
\* piece whose send did not fail and none for one whose send failed, and
\* every piece of a download was fetched once
C19_EachPieceOnce ==
    /\ UploadJoined =>
         /\ Len(results) = Len(chunkPaths)
         /\ \A i \in DOMAIN results :
              /\ results[i] # ZeroResult
              /\ upTask[i] = "done"
              /\ Cardinality(PieceDocs(i - 1)) =
                   (IF results[i].Err = "err" THEN 0 ELSE 1)
         /\ \A k \in 1..Len(store) :
              store[k].kind = "piece" => store[k].index + 1 \in DOMAIN results
    /\ DownloadJoined =>
         \A i \in DOMAIN dlTask :
           /\ dlTask[i] = "done"
           /\ Cardinality(FetchesOf(i)) = 1

\* an upload ended after the send of a piece failed, and a piece after it
\* in the chat was still sent
UploadWentOn ==
    /\ upc = "done"
    /\ \E i \in DOMAIN results :
         /\ results[i].Err = "nodoc"
         /\ \E k \in PieceDocs(i - 1) :
              \E j \in (k + 1)..Len(store) : store[j].kind = "piece"

\* a download over three pieces or more ended after the fetch of a piece
\* failed, and a fetch that returned after the failure succeeded
C19_Witness ==
    /\ DownloadJoined
    /\ Len(dlTask) >= 3
    /\ \E k \in FailedFetches :
         \E j \in (k + 1)..Len(fetchLog) : fetchLog[j].ok

\* a direct download that answered with the document
DirectAnswered ==
    /\ dpc = "done"
    /\ dlFilename # <<>>
    /\ dlResp.status = "ok"

\* e is the extension of name: the part of name from its last dot on, when
\* no path separator follows that dot
IsExtension(name, e) ==
    \E i \in 1..Len(name) :
      /\ name[i] = "."
      /\ e = SubSeq(name, i, Len(name))
      /\ \A j \in (i + 1)..Len(name) : name[j] \notin {".", "/"}

\* the type package mime gives for the extension of name, "" for none
TypeOfName(name) ==
    IF \E i \in 1..Len(name) : IsExtension(name, SubSeq(name, i, Len(name)))
    THEN TypeByExtension(CHOOSE e \in {SubSeq(name, i, Len(name)) :
                                         i \in 1..Len(name)} :
                             IsExtension(name, e))
    ELSE ""

\* C13 as stated: on the direct path the content type of the response is
\* the type of the extension of the file name, or the generic binary type
\* when the extension has no type
C13_TypeFromExtension ==
    DirectAnswered =>
      dlResp.contentType =
        (IF TypeOfName(dlFilename) = "" THEN "application/octet-stream"
         ELSE TypeOfName(dlFilename))

\* C13 amended: on the direct path the content type of the response is
\* the type of the extension of the file name, except that video/mp4
\* stands for image/gif, or the generic binary type when the extension
\* has no type
C13_TypeFromExtensionButGif ==
    DirectAnswered =>
      dlResp.contentType =
        (CASE TypeOfName(dlFilename) = "" -> "application/octet-stream"
           [] TypeOfName(dlFilename) = "image/gif" -> "video/mp4"
           [] OTHER -> TypeOfName(dlFilename))

\* a direct download of a name whose extension is the last of two, in
\* capitals or not, answered with the type of that extension
C13_Witness ==
    /\ DirectAnswered
    /\ \E i \in 1..Len(dlFilename) :
         /\ dlFilename[i] = "."
         /\ \E j \in (i + 1)..Len(dlFilename) : dlFilename[j] = "."
    /\ dlResp.contentType = "video/mp4"

\* the fetches, of a whole document, a manifest or a piece, that failed
FailedRetrievals == {k \in 1..Len(fetchLog) : ~fetchLog[k].ok}

\* C23: on both download paths a retrieval that failed, an answer of the
\* file server with a status other than 200 included, ends the download
\* with an error, and nothing is written to the output as file content
C23_FailedRetrievalAborts ==
    (dpc = "done" /\ FailedRetrievals # {}) =>
      /\ dlResp.status = "error"
      /\ out = <<>>

\* C24: an upload response with a result carries a file id that is not
\* empty and that the chat returned for a document this job stored
C24_ResultHasStoredFileID ==
    (upc = "done" /\ upResp.status = "ok") =>
      /\ upResp.FileID # <<>>
      /\ \E k \in 1..Len(store) : upResp.FileID = FileIDOf(k)

\* C21: at every moment the chat operations in flight, of the upload job
\* and of the download job that run in the process together, are at most
\* threadNumbers
C21_ProcessWideCeiling == InFlightUp + InFlightDl <= threadNumbers

\* the document a link refers to, 0 when the chat has none for it
Referenced(l) == Lookup(l.FileID)

\* C22: every link handed out, by an upload response or by the reply to
\* get, has no filename exactly when the document it refers to is a
\* manifest that an upload stored
C22_LinkClassification ==
    \A l \in links :
      Referenced(l) # 0 =>
        (l.filename = <<>> <=> store[Referenced(l)].kind = "manifest")

====
